---------------------------- MODULE Spec2Model ----------------------------
(***************************************************************************)
(* Model of rs-arrow-ipc-stream2x: batch_iter2x pulls record batches from  *)
(* an iterator and transcodes them, cell by cell, into one worksheet.      *)
(*                                                                         *)
(* The worksheet (rust_xlsxwriter) and the batch iterator are collabora-   *)
(* tors of the code: the iterator yields, on every pull, any element of    *)
(* the element set or the end of the stream; a worksheet call either       *)
(* succeeds and stores the value at (row, col) or fails with an XlsxError. *)
(***************************************************************************)
EXTENDS Integers, Sequences, FiniteSets, TLC

VARIABLES
    pc,          \* position in batch_iter2x / write_batch
    result,      \* "none" while running, then "Ok", "Xlsx" or "Arrow"
    pulled,      \* the elements bi.next() has yielded so far, in order
    exhausted,   \* bi.next() has returned None
    row_offset,  \* the row cursor (lib.rs:42)
    row,         \* write_batch's row loop index (lib.rs:78)
    col,         \* column loop index (lib.rs:47 and lib.rs:79)
    calls,       \* every write call issued to the worksheet, in order
    cells,       \* the worksheet: (row, col) -> stored cell
    rowmap       \* history: for each finished source row, where it went

vars == <<pc, result, pulled, exhausted, row_offset, row, col, calls, cells, rowmap>>

\* The number of elements the iterator may yield before it ends.
MaxPulls == 3

-----------------------------------------------------------------------------
(* Arrow data: logical types, nullable values, columns, batches.           *)

\* A DataType; unit is "-" for the types that carry no TimeUnit.
DT(id) == [id |-> id, unit |-> "-"]
DTU(id, unit) == [id |-> id, unit |-> unit]

\* A slot of an array: the validity bit and the value buffer's entry.
Val(v) == [null |-> FALSE, v |-> v]
NullSlot(v) == [null |-> TRUE, v |-> v]

\* A 64-bit float given exactly as num / den.
F(num, den) == [num |-> num, den |-> den]

\* A Date64 value: days * 86_400_000 + ms milliseconds since the epoch,
\* held as its Euclidean quotient and remainder (0 <= ms < 86_400_000).
Millis(days, ms) == [days |-> days, ms |-> ms]

Column(name, data_type, values) ==
    [name |-> name, data_type |-> data_type, values |-> values]

RecordBatch(columns, num_rows) == [columns |-> columns, num_rows |-> num_rows]

\* Items of the iterator: Ok(batch) or Err(ArrowError).
OkBatch(b) == [ok |-> TRUE, batch |-> b]
DecodeFailure == [ok |-> FALSE]

num_rows(b) == b.num_rows
num_columns(b) == Len(b.columns)

-----------------------------------------------------------------------------
(* Worksheet cells.                                                        *)

StringCell(s) == [kind |-> "string", s |-> s]
\* The double num / (den * 10^pow10).
NumberCell(num, den, pow10) == [kind |-> "number", num |-> num, den |-> den, pow10 |-> pow10]
BooleanCell(b) == [kind |-> "boolean", b |-> b]
DateTimeCell(y, m, d, ms) == [kind |-> "datetime", y |-> y, m |-> m, d |-> d, ms |-> ms]


-----------------------------------------------------------------------------
(* Conversions used by write_batch.                                        *)

\* chrono's calendar range: NaiveDate::MIN.year() and NaiveDate::MAX.year().
MIN_YEAR == -262143
MAX_YEAR == 262142
\* Days from 0001-01-01 (day 1) to 1970-01-01.
UNIX_EPOCH_DAY == 719163
I32_MAX == 2147483647

None == [some |-> FALSE]
Some(v) == [some |-> TRUE, v |-> v]

\* The proleptic Gregorian date of day number ce (0001-01-01 is day 1).
civil_from_days(ce) ==
    LET z    == ce + 305                      \* days since 0000-03-01
        era  == z \div 146097
        doe  == z - era * 146097
        yoe  == (doe - doe \div 1460 + doe \div 36524 - doe \div 146096) \div 365
        doy  == doe - (365 * yoe + yoe \div 4 - yoe \div 100)
        mp   == (5 * doy + 2) \div 153
        d    == doy - (153 * mp + 2) \div 5 + 1
        m    == IF mp < 10 THEN mp + 3 ELSE mp - 9
        y    == yoe + era * 400 + (IF m <= 2 THEN 1 ELSE 0)
    IN  [y |-> y, m |-> m, d |-> d]

\* Variant of from_num_days_from_ce_opt without the range check.
from_num_days_from_ce_unchecked(ce) == Some(civil_from_days(ce))

\* NaiveDate::from_num_days_from_ce_opt: None outside the calendar range.
from_num_days_from_ce_opt(ce) ==
    LET date == civil_from_days(ce)
    IN  IF date.y < MIN_YEAR \/ date.y > MAX_YEAR THEN None ELSE Some(date)

\* NaiveDate::from_epoch_days(value): checked_add, then the range check.
from_epoch_days(value) ==
    IF value > I32_MAX - UNIX_EPOCH_DAY
    THEN None
    ELSE from_num_days_from_ce_opt(value + UNIX_EPOCH_DAY)

\* DateTime::<Utc>::from_timestamp_millis(value).naive_utc(): the date of
\* the Euclidean day quotient, the time of day from the remainder.
from_timestamp_millis(value) ==
    LET date == from_num_days_from_ce_opt(value.days + UNIX_EPOCH_DAY)
    IN  IF date.some
        THEN Some([y |-> date.v.y, m |-> date.v.m, d |-> date.v.d, ms |-> value.ms])
        ELSE None

Digit(n) == CASE n = 0 -> "0" [] n = 1 -> "1" [] n = 2 -> "2" [] n = 3 -> "3"
              [] n = 4 -> "4" [] n = 5 -> "5" [] n = 6 -> "6" [] n = 7 -> "7"
              [] n = 8 -> "8" [] n = 9 -> "9"

RECURSIVE Decimal(_)
Decimal(n) == IF n < 10 THEN Digit(n) ELSE Decimal(n \div 10) \o Digit(n % 10)

\* format!("{}", v) of a signed integer.
format_display(v) == IF v < 0 THEN "-" \o Decimal(-v) ELSE Decimal(v)

\* format!("{:?}", data_type) of a type that carries no parameter.
format_debug(data_type) == data_type.id

IntegerIds == {"Int8", "Int16", "Int32", "Int64", "UInt8", "UInt16", "UInt32", "UInt64"}
FloatIds == {"Float32", "Float64"}

\* `value as f64` in write_primitive_number!: integers and floats widen
\* without change of value (samples stay below 2^53).
as_f64(data_type, v) ==
    IF data_type.id \in FloatIds THEN NumberCell(v.num, v.den, 0) ELSE NumberCell(v, 1, 0)

\* write_primitive_number!: the cells to write for one slot (none on null).
write_primitive_number(data_type, slot) ==
    IF ~slot.null THEN {as_f64(data_type, slot.v)} ELSE {}

\* The match on data_type in write_batch (lib.rs:83-258): the set of cells
\* the arm hands to the worksheet for this slot: empty when the arm issues
\* no write call, one cell otherwise.
match_data_type(data_type, slot) ==
    CASE data_type.id = "Utf8" ->
            IF ~slot.null THEN {StringCell(slot.v)} ELSE {}
      [] data_type.id \in IntegerIds \cup FloatIds ->
            write_primitive_number(data_type, slot)
      [] data_type.id = "Float16" ->
            IF ~slot.null THEN {NumberCell(slot.v.num, slot.v.den, 0)} ELSE {}
      [] data_type.id = "Boolean" ->
            IF ~slot.null THEN {BooleanCell(slot.v)} ELSE {}
      [] data_type.id = "Date32" ->
            IF ~slot.null
            THEN LET date == from_epoch_days(slot.v)
                 IN  IF date.some
                     THEN {DateTimeCell(date.v.y, date.v.m, date.v.d, 0)}
                     ELSE {}
            ELSE {}
      [] data_type.id = "Date64" ->
            IF ~slot.null
            THEN LET datetime_utc == from_timestamp_millis(slot.v)
                 IN  IF datetime_utc.some
                     THEN {DateTimeCell(datetime_utc.v.y, datetime_utc.v.m,
                                        datetime_utc.v.d, datetime_utc.v.ms)}
                     ELSE {}
            ELSE {}
      [] data_type.id = "Time32" ->
            CASE data_type.unit = "Second" ->
                    IF ~slot.null THEN {NumberCell(slot.v, 86400, 0)} ELSE {}
              [] data_type.unit = "Millisecond" ->
                    IF ~slot.null THEN {NumberCell(slot.v, 86400, 3)} ELSE {}
              [] OTHER -> {}
      [] data_type.id = "Time64" ->
            CASE data_type.unit = "Microsecond" ->
                    IF ~slot.null THEN {NumberCell(slot.v, 86400, 6)} ELSE {}
              [] data_type.unit = "Nanosecond" ->
                    IF ~slot.null THEN {NumberCell(slot.v, 86400, 9)} ELSE {}
              [] OTHER -> {}
      [] data_type.id = "Timestamp" ->
            LET s == IF ~slot.null THEN format_display(slot.v) ELSE ""
            IN  {StringCell(s)}
      [] OTHER ->
            {StringCell("unsupported data type: " \o format_debug(data_type))}

-----------------------------------------------------------------------------
(* The batches the iterator may yield.                                     *)

\* [id: Int32, name: Utf8] with rows (1, "Alice"), (2, null).
BatchIdName ==
    RecordBatch(<<Column("id", DT("Int32"), <<Val(1), Val(2)>>),
                  Column("name", DT("Utf8"), <<Val("Alice"), NullSlot("")>>)>>, 2)

\* The same schema, no rows.
BatchNoRows ==
    RecordBatch(<<Column("id", DT("Int32"), <<>>),
                  Column("name", DT("Utf8"), <<>>)>>, 0)

\* The same schema, one row holding only nulls.
BatchAllNull ==
    RecordBatch(<<Column("id", DT("Int32"), <<NullSlot(0)>>),
                  Column("name", DT("Utf8"), <<NullSlot("")>>)>>, 1)

\* No columns, one row.
BatchNoColumns == RecordBatch(<<>>, 1)

\* Dates in and out of chrono's range, next to a text column.
BatchDates ==
    RecordBatch(<<Column("d", DT("Date32"), <<Val(100000000), Val(0), NullSlot(0)>>),
                  Column("t", DT("Date64"),
                         <<Val(Millis(-100000000, 0)), Val(Millis(19723, 43200000)),
                           NullSlot(Millis(0, 0))>>),
                  Column("name", DT("Utf8"), <<Val("x"), Val("y"), Val("z")>>)>>, 3)

\* Three columns: a boolean, a timestamp and a type write_batch does not know.
BatchOther ==
    RecordBatch(<<Column("flag", DT("Boolean"), <<Val(TRUE), NullSlot(FALSE)>>),
                  Column("ts", DTU("Timestamp", "Millisecond"), <<Val(1000), NullSlot(0)>>),
                  Column("blob", DT("Binary"), <<Val("b"), NullSlot("")>>)>>, 2)

\* One column, one row.
BatchOneFloat ==
    RecordBatch(<<Column("x", DT("Float64"), <<Val(F(3, 2))>>)>>, 1)

\* The remaining numeric arms, a value and a null each.
BatchNumbers ==
    RecordBatch(<<Column("i8", DT("Int8"), <<Val(-128), NullSlot(0)>>),
                  Column("u64", DT("UInt64"), <<Val(7), NullSlot(0)>>),
                  Column("f16", DT("Float16"), <<Val(F(1, 2)), NullSlot(F(0, 1))>>),
                  Column("f32", DT("Float32"), <<Val(F(-5, 4)), NullSlot(F(0, 1))>>)>>, 2)

\* The time-of-day and timestamp arms, a value and a null each; Time32 with
\* a unit the match does not list.
BatchTimes ==
    RecordBatch(<<Column("s", DTU("Time32", "Second"), <<Val(43200), NullSlot(0)>>),
                  Column("ms", DTU("Time32", "Millisecond"), <<Val(1), NullSlot(0)>>),
                  Column("us", DTU("Time64", "Microsecond"), <<Val(2), NullSlot(0)>>),
                  Column("ns", DTU("Time64", "Nanosecond"), <<Val(3), NullSlot(0)>>),
                  Column("odd", DTU("Time32", "Nanosecond"), <<Val(4), NullSlot(0)>>),
                  Column("at", DTU("Timestamp", "Second"), <<Val(-1), NullSlot(0)>>)>>, 2)

SampleBatches ==
    {BatchIdName, BatchNoRows, BatchAllNull, BatchNoColumns, BatchDates,
     BatchOther, BatchOneFloat, BatchNumbers, BatchTimes}

\* What one bi.next() may yield besides None.
SampleItems == {OkBatch(b) : b \in SampleBatches} \cup {DecodeFailure}

-----------------------------------------------------------------------------
(* The worksheet.                                                          *)

\* Variant of as_u16 that counts columns from 1.
as_u16_one_based(c) == (c + 1) % 65536

\* `col as u16`.
as_u16(c) == c % 65536

\* The grid after a successful write of cell v at (r, c).
Store(r, c, v) ==
    [p \in DOMAIN cells \cup {<<r, c>>} |-> IF p = <<r, c>> THEN v ELSE cells[p]]

\* One worksheet.write_*(r, c, v) call: logged, and stored when it succeeds.
WriteCall(r, c, v, ok) ==
    /\ calls' = Append(calls, [row |-> r, col |-> c, value |-> v, ok |-> ok])
    /\ cells' = IF ok THEN Store(r, c, v) ELSE cells

\* The `?` on an XlsxError: batch_iter2x returns Err(Error::Xlsx).
ReturnXlsx ==
    /\ result' = "Xlsx"
    /\ pc' = "done"

\* The batch being transcoded.
batch == pulled[Len(pulled)].batch

-----------------------------------------------------------------------------
(* batch_iter2x and write_batch, one step per call or loop iteration.      *)

Init ==
    /\ pc = "set_name"
    /\ result = "none"
    /\ pulled = <<>>
    /\ exhausted = FALSE
    /\ row_offset = 0
    /\ row = 0
    /\ col = 0
    /\ calls = <<>>
    /\ cells = [p \in {} |-> None]
    /\ rowmap = <<>>

\* lib.rs:40-42: add_worksheet().set_name(sheet_name)?; row_offset = 0.
SetName ==
    /\ pc = "set_name"
    /\ \E ok \in BOOLEAN :
          IF ok
          THEN /\ pc' = "first"
               /\ row_offset' = 0
               /\ UNCHANGED result
          ELSE /\ ReturnXlsx
               /\ UNCHANGED row_offset
    /\ UNCHANGED <<pulled, exhausted, row, col, calls, cells, rowmap>>

\* Variant of Pull that skips an item that failed to decode and goes on.
Pull_SkipFailure(items, onBatch) ==
    \/ /\ exhausted' = TRUE
       /\ result' = "Ok"
       /\ pc' = "done"
       /\ UNCHANGED <<pulled, row, col>>
    \/ /\ Len(pulled) < MaxPulls
       /\ \E item \in items :
             /\ pulled' = Append(pulled, item)
             /\ IF item.ok
                THEN /\ pc' = onBatch
                     /\ row' = 0
                     /\ col' = 0
                ELSE UNCHANGED <<pc, row, col>>
       /\ UNCHANGED <<exhausted, result>>

\* One bi.next() and the `?` on its item; on a batch, go to `onBatch`.
Pull(items, onBatch) ==
    \/ /\ exhausted' = TRUE                       \* None: fall through to Ok(())
       /\ result' = "Ok"
       /\ pc' = "done"
       /\ UNCHANGED <<pulled, row, col>>
    \/ /\ Len(pulled) < MaxPulls
       /\ \E item \in items :
             /\ pulled' = Append(pulled, item)
             /\ IF item.ok
                THEN /\ pc' = onBatch
                     /\ row' = 0
                     /\ col' = 0
                     /\ UNCHANGED result
                ELSE /\ result' = "Arrow"         \* batch_result?
                     /\ pc' = "done"
                     /\ UNCHANGED <<row, col>>
       /\ UNCHANGED exhausted

\* Variant of PullFirst that treats an empty source as a decode error.
PullFirst_EmptyIsError(items) ==
    /\ pc = "first"
    /\ \/ /\ exhausted' = TRUE
          /\ result' = "Arrow"
          /\ pc' = "done"
          /\ UNCHANGED <<pulled, row, col>>
       \/ /\ Len(pulled) < MaxPulls
          /\ \E item \in items :
                /\ pulled' = Append(pulled, item)
                /\ IF item.ok
                   THEN /\ pc' = "header"
                        /\ row' = 0
                        /\ col' = 0
                        /\ UNCHANGED result
                   ELSE /\ result' = "Arrow"
                        /\ pc' = "done"
                        /\ UNCHANGED <<row, col>>
          /\ UNCHANGED exhausted
    /\ UNCHANGED <<row_offset, calls, cells, rowmap>>

\* lib.rs:44-45: the first bi.next().
PullFirst(items) ==
    /\ pc = "first"
    /\ Pull(items, "header")
    /\ UNCHANGED <<row_offset, calls, cells, rowmap>>

\* lib.rs:47-49: one header cell.
WriteHeader ==
    /\ pc = "header"
    /\ col < num_columns(batch)
    /\ \E ok \in BOOLEAN :
          /\ WriteCall(row_offset, as_u16(col), StringCell(batch.columns[col + 1].name), ok)
          /\ IF ok
             THEN /\ col' = col + 1
                  /\ UNCHANGED <<pc, result>>
             ELSE /\ ReturnXlsx
                  /\ UNCHANGED col
    /\ UNCHANGED <<pulled, exhausted, row_offset, row, rowmap>>

\* Variant of HeaderDone that leaves the cursor on the header row.
HeaderDone_NoAdvance ==
    /\ pc = "header"
    /\ col = num_columns(batch)
    /\ pc' = "cell"
    /\ row' = 0
    /\ col' = 0
    /\ UNCHANGED <<row_offset, result, pulled, exhausted, calls, cells, rowmap>>

\* lib.rs:50-52: row_offset += 1, then enter write_batch on the first batch.
HeaderDone ==
    /\ pc = "header"
    /\ col = num_columns(batch)
    /\ row_offset' = row_offset + 1
    /\ pc' = "cell"
    /\ row' = 0
    /\ col' = 0
    /\ UNCHANGED <<result, pulled, exhausted, calls, cells, rowmap>>

\* Variant of WriteCell that drops the `?`: a failed write is ignored and
\* the column loop goes on.
WriteCell_IgnoreError ==
    /\ pc = "cell"
    /\ row < num_rows(batch)
    /\ col < num_columns(batch)
    /\ LET column == batch.columns[col + 1]
           writes == match_data_type(column.data_type, column.values[row + 1])
       IN  \/ /\ writes = {}
              /\ UNCHANGED <<calls, cells>>
           \/ \E v \in writes : \E ok \in BOOLEAN :
                 WriteCall(row_offset, as_u16(col), v, ok)
    /\ col' = col + 1
    /\ UNCHANGED <<pc, result, pulled, exhausted, row_offset, row, rowmap>>

\* lib.rs:79-259: one iteration of the column loop.
WriteCell ==
    /\ pc = "cell"
    /\ row < num_rows(batch)
    /\ col < num_columns(batch)
    /\ LET column == batch.columns[col + 1]
           writes == match_data_type(column.data_type, column.values[row + 1])
       IN  \/ /\ writes = {}
              /\ col' = col + 1
              /\ UNCHANGED <<pc, result, calls, cells>>
           \/ \E v \in writes : \E ok \in BOOLEAN :
                 /\ WriteCall(row_offset, as_u16(col), v, ok)
                 /\ IF ok
                    THEN /\ col' = col + 1
                         /\ UNCHANGED <<pc, result>>
                    ELSE /\ ReturnXlsx
                         /\ UNCHANGED col
    /\ UNCHANGED <<pulled, exhausted, row_offset, row, rowmap>>

\* Variant of RowDone that moves the cursor only past rows that got a cell.
RowDone_SkipBlankRows ==
    /\ pc = "cell"
    /\ row < num_rows(batch)
    /\ col = num_columns(batch)
    /\ rowmap' = Append(rowmap, [batch |-> Len(pulled), row |-> row, dest |-> row_offset])
    /\ row_offset' = IF \E p \in DOMAIN cells : p[1] = row_offset
                     THEN row_offset + 1
                     ELSE row_offset
    /\ row' = row + 1
    /\ col' = 0
    /\ UNCHANGED <<pc, result, pulled, exhausted, calls, cells>>

\* Variant of RowDone that never moves the cursor.
RowDone_NoAdvance ==
    /\ pc = "cell"
    /\ row < num_rows(batch)
    /\ col = num_columns(batch)
    /\ rowmap' = Append(rowmap, [batch |-> Len(pulled), row |-> row, dest |-> row_offset])
    /\ row' = row + 1
    /\ col' = 0
    /\ UNCHANGED <<row_offset, pc, result, pulled, exhausted, calls, cells>>

\* lib.rs:260: the end of a row, *row_offset += 1.
RowDone ==
    /\ pc = "cell"
    /\ row < num_rows(batch)
    /\ col = num_columns(batch)
    /\ rowmap' = Append(rowmap, [batch |-> Len(pulled), row |-> row, dest |-> row_offset])
    /\ row_offset' = row_offset + 1
    /\ row' = row + 1
    /\ col' = 0
    /\ UNCHANGED <<pc, result, pulled, exhausted, calls, cells>>

\* lib.rs:262: write_batch returns Ok(()).
BatchDone ==
    /\ pc = "cell"
    /\ row = num_rows(batch)
    /\ pc' = "next"
    /\ UNCHANGED <<result, pulled, exhausted, row_offset, row, col, calls, cells, rowmap>>

\* lib.rs:54-56: the next item of `for batch_result in bi`.
PullNext(items) ==
    /\ pc = "next"
    /\ Pull(items, "cell")
    /\ UNCHANGED <<row_offset, calls, cells, rowmap>>

Next ==
    \/ SetName
    \/ PullFirst(SampleItems)
    \/ WriteHeader
    \/ HeaderDone
    \/ WriteCell
    \/ RowDone
    \/ BatchDone
    \/ PullNext(SampleItems)

Spec == Init /\ [][Next]_vars

-----------------------------------------------------------------------------
(* Vocabulary of the properties.                                           *)

\* The slot of source row r, column c (both 0-based) of the k-th item.
SlotAt(k, r, c) == pulled[k].batch.columns[c + 1].values[r + 1]
TypeAt(k, c) == pulled[k].batch.columns[c + 1].data_type
ColumnsOf(k) == 0 .. (num_columns(pulled[k].batch) - 1)

RECURSIVE SumRows(_)
\* The row counts of the first k items added up (all of them batches).
SumRows(k) == IF k = 0 THEN 0 ELSE SumRows(k - 1) + num_rows(pulled[k].batch)

\* The k-th item is a batch that write_batch has finished.
Transcoded(k) ==
    /\ k \in DOMAIN pulled
    /\ pulled[k].ok
    /\ \/ k < Len(pulled)
       \/ pc = "next"
       \/ pc = "done" /\ result = "Ok"

\* The source rows write_batch has finished, with their destination rows.
FinishedRows == {rowmap[i] : i \in DOMAIN rowmap}

\* The source row write_batch is in the middle of, if any.
RowInProgress ==
    IF pc = "cell" /\ row < num_rows(batch)
    THEN {[batch |-> Len(pulled), row |-> row, dest |-> row_offset]}
    ELSE {}

CallsAt(r, c) == {i \in DOMAIN calls : calls[i].row = r /\ calls[i].col = c}
Populated(r, c) == <<r, c>> \in DOMAIN cells

\* The header loop has run to its end.
HeaderEmitted == pulled # <<>> /\ pulled[1].ok /\ row_offset >= 1

-----------------------------------------------------------------------------
(* C1: row accounting.                                                     *)

C1_RowsAccounted ==
    \* destination rows are 1, 2, 3, ... in the order the source rows finish
    /\ \A i \in DOMAIN rowmap : rowmap[i].dest = i
    \* source rows finish in source order, none twice
    /\ \A i, j \in DOMAIN rowmap :
          i < j => \/ rowmap[i].batch < rowmap[j].batch
                   \/ rowmap[i].batch = rowmap[j].batch /\ rowmap[i].row < rowmap[j].row
    \* every row of a transcoded batch has exactly one destination row
    /\ \A k \in DOMAIN pulled :
          Transcoded(k) =>
             \A r \in 0 .. (num_rows(pulled[k].batch) - 1) :
                Cardinality({e \in FinishedRows : e.batch = k /\ e.row = r}) = 1
    \* the cursor after the last transcoded batch
    /\ \A k \in DOMAIN pulled :
          (Transcoded(k) /\ k = Len(pulled)) => row_offset = 1 + SumRows(k)

\* C1: after batch k has been transcoded the row cursor is 1 + the row counts
\* of batches 1..k; the cursor never decreases; every source row of every
\* transcoded batch has exactly one destination row, the destination rows
\* being 1, 2, 3, ... without gap or repeat.
C1_Cursor == []C1_RowsAccounted /\ [][row_offset' >= row_offset]_vars

\* Two batches done, the first holding only nulls: cursor 1 + 1 + 2.
C1_Witness ==
    /\ pc = "next"
    /\ pulled = <<OkBatch(BatchAllNull), OkBatch(BatchIdName)>>
    /\ row_offset = 4
    /\ Len(rowmap) = 3

-----------------------------------------------------------------------------
(* C2: nulls.                                                              *)

\* C2: whatever the column's logical type, a null at (row, column) causes no
\* write call for the destination cell of that row and column, and the cell
\* stays unset.
C2_NullLeavesCellUntouched ==
    \A e \in FinishedRows \cup RowInProgress :
       \A c \in ColumnsOf(e.batch) :
          SlotAt(e.batch, e.row, c).null =>
             /\ CallsAt(e.dest, c) = {}
             /\ ~Populated(e.dest, c)

-----------------------------------------------------------------------------
(* C3: the header.                                                         *)

\* C3: the header is emitted once, from the first item when it is a batch:
\* every write call to row 0 is one of the first num_columns calls and
\* writes the i-th field name at column i; once the header loop has ended
\* row 0 holds exactly those cells; no call is issued before a batch has
\* been pulled or when the first item is a decode failure.
C3_HeaderOnce ==
    /\ \A i \in DOMAIN calls :
          calls[i].row = 0 =>
             /\ pulled # <<>> /\ pulled[1].ok
             /\ i <= num_columns(pulled[1].batch)
             /\ calls[i].col = i - 1
             /\ calls[i].value = StringCell(pulled[1].batch.columns[i].name)
    /\ HeaderEmitted =>
          /\ {p \in DOMAIN cells : p[1] = 0} = {<<0, c>> : c \in ColumnsOf(1)}
          /\ \A c \in ColumnsOf(1) :
                cells[<<0, c>>] = StringCell(pulled[1].batch.columns[c + 1].name)
    /\ (pulled = <<>> \/ ~pulled[1].ok) => (calls = <<>> /\ DOMAIN cells = {})

\* A later batch with more columns has been transcoded under a two-cell header.
C3_Witness ==
    /\ pc = "next"
    /\ pulled = <<OkBatch(BatchIdName), OkBatch(BatchOther)>>
    /\ Cardinality({p \in DOMAIN cells : p[1] = 0}) = 2

-----------------------------------------------------------------------------
(* C4: decode failures.                                                    *)

\* A step that pulls an item which is a decode failure.
PullsFailure ==
    /\ Len(pulled') = Len(pulled) + 1
    /\ ~pulled'[Len(pulled')].ok

C4_FailureIsLast ==
    /\ \A k \in DOMAIN pulled : ~pulled[k].ok => (k = Len(pulled) /\ result = "Arrow")
    /\ result = "Arrow" => (pulled # <<>> /\ ~pulled[Len(pulled)].ok /\ pc = "done")

\* C4: the step that pulls a decode failure ends the run with Error::Arrow
\* and changes neither the cells, the write calls nor the cursor; no item is
\* pulled and nothing is written after it; the failure is the last item.
C4_DecodeFailureAborts ==
    /\ []C4_FailureIsLast
    /\ [][/\ PullsFailure =>
                /\ result' = "Arrow"
                /\ UNCHANGED <<calls, cells, row_offset, rowmap>>
          /\ result = "Arrow" => UNCHANGED <<pulled, calls, cells, exhausted>>]_vars

\* The second item fails after the first batch has been written.
C4_Witness ==
    /\ result = "Arrow"
    /\ pulled = <<OkBatch(BatchIdName), DecodeFailure>>
    /\ Populated(1, 1)
    /\ Len(rowmap) = 2

-----------------------------------------------------------------------------
(* C5: write failures.                                                     *)

\* A step that issues a write call which fails.
WriteFails ==
    /\ Len(calls') = Len(calls) + 1
    /\ ~calls'[Len(calls')].ok

C5_FailedCallIsLast ==
    /\ \A i \in DOMAIN calls : ~calls[i].ok => (i = Len(calls) /\ result = "Xlsx")
    \* nothing is rolled back: every successful call's cell is in the sheet
    /\ \A i \in DOMAIN calls :
          calls[i].ok =>
             /\ Populated(calls[i].row, calls[i].col)
             /\ cells[<<calls[i].row, calls[i].col>>] = calls[i].value

\* C5: the step in which a write fails ends the run with Error::Xlsx and
\* leaves the cells as they were; after it no write call is issued and no
\* item is pulled; the failed call is the last call, and every call that
\* succeeded before it still has its cell in the sheet.
C5_WriteFailureAborts ==
    /\ []C5_FailedCallIsLast
    /\ [][/\ WriteFails =>
                /\ result' = "Xlsx"
                /\ pc' = "done"
                /\ UNCHANGED <<cells, pulled, row_offset>>
          /\ result = "Xlsx" => UNCHANGED <<pulled, calls, cells, exhausted>>]_vars

\* A data write fails in the middle of a row whose first cell is written.
C5_Witness ==
    /\ result = "Xlsx"
    /\ calls # <<>>
    /\ calls[Len(calls)].row = 1
    /\ calls[Len(calls)].col = 1
    /\ ~calls[Len(calls)].ok
    /\ Populated(1, 0)
    /\ ~Populated(1, 1)

-----------------------------------------------------------------------------
(* C6: the empty source.                                                   *)

\* C6: when the first bi.next() returns None the run ends with Ok and no
\* write call has been issued: the sheet has no cell.
C6_EmptySource ==
    (exhausted /\ pulled = <<>>) =>
       /\ result = "Ok"
       /\ pc = "done"
       /\ calls = <<>>
       /\ DOMAIN cells = {}

C6_Witness == exhausted /\ pulled = <<>> /\ result = "Ok"

-----------------------------------------------------------------------------
(* C7: the column positions of the sheet.                                  *)

\* C7: the header row has as many populated cells as the first batch has
\* columns, and every data row occupies exactly those column positions: no
\* data write call targets a column at or beyond the first batch's column
\* count, and every finished data row went over each of those positions.
C7_RowsShareHeaderColumns ==
    /\ HeaderEmitted =>
          Cardinality({p \in DOMAIN cells : p[1] = 0}) = num_columns(pulled[1].batch)
    /\ \A i \in DOMAIN calls :
          calls[i].row >= 1 => calls[i].col < num_columns(pulled[1].batch)
    /\ \A e \in FinishedRows : ColumnsOf(e.batch) = ColumnsOf(1)

-----------------------------------------------------------------------------
(* C8: the order of the write calls.                                       *)

LexLess(a, b) == a.row < b.row \/ (a.row = b.row /\ a.col < b.col)

\* C8: the positions of successive write calls, header included, increase
\* strictly in row-major order, so no position is written twice and no call
\* targets a row before one already written.
C8_AppendForward ==
    /\ \A i \in DOMAIN calls : i < Len(calls) => LexLess(calls[i], calls[i + 1])
    /\ \A i, j \in DOMAIN calls :
          i < j => /\ calls[i].row <= calls[j].row
                   /\ <<calls[i].row, calls[i].col>> # <<calls[j].row, calls[j].col>>

\* A whole run over two batches, with calls in rows 0 to 4.
C8_Witness ==
    /\ result = "Ok"
    /\ pulled = <<OkBatch(BatchIdName), OkBatch(BatchOther)>>
    /\ {calls[i].row : i \in DOMAIN calls} = 0 .. 4
    /\ Len(calls) = 10

-----------------------------------------------------------------------------
(* C9: dates outside the calendar range.                                   *)

\* Epoch days before -262143-01-01 or after +262142-12-31.
OutOfCalendarRange(days) == days < -96465292 \/ days > 95026236

UnrepresentableDate(k, r, c) ==
    /\ ~SlotAt(k, r, c).null
    /\ \/ TypeAt(k, c).id = "Date32" /\ OutOfCalendarRange(SlotAt(k, r, c).v)
       \/ TypeAt(k, c).id = "Date64" /\ OutOfCalendarRange(SlotAt(k, r, c).v.days)

\* C9: a non-null date outside the calendar range gets no write call and its
\* cell stays blank, while the row is finished all the same: its text cells
\* are written, the cursor has moved past it, and a run that ends Ok has
\* finished every row of every batch; the Date32 value 0 is written as
\* 1970-01-01.
C9_UnrepresentableDateIsBlank ==
    /\ \A e \in FinishedRows :
          \A c \in ColumnsOf(e.batch) :
             /\ UnrepresentableDate(e.batch, e.row, c) =>
                   /\ CallsAt(e.dest, c) = {}
                   /\ ~Populated(e.dest, c)
                   /\ row_offset > e.dest
                   /\ \A c2 \in ColumnsOf(e.batch) :
                         (TypeAt(e.batch, c2).id = "Utf8" /\ ~SlotAt(e.batch, e.row, c2).null) =>
                            /\ Populated(e.dest, c2)
                            /\ cells[<<e.dest, c2>>] = StringCell(SlotAt(e.batch, e.row, c2).v)
             /\ (/\ TypeAt(e.batch, c).id = "Date32"
                 /\ ~SlotAt(e.batch, e.row, c).null
                 /\ SlotAt(e.batch, e.row, c).v = 0) =>
                   /\ Populated(e.dest, c)
                   /\ cells[<<e.dest, c>>] = DateTimeCell(1970, 1, 1, 0)
    /\ \A e \in RowInProgress :
          \A c \in ColumnsOf(e.batch) :
             (c < col /\ UnrepresentableDate(e.batch, e.row, c)) =>
                (CallsAt(e.dest, c) = {} /\ ~Populated(e.dest, c) /\ result = "none")
    /\ result = "Ok" => Len(rowmap) = SumRows(Len(pulled))

\* A run over the batch of dates has ended Ok: its first row holds two dates
\* out of range and a text, its second row the epoch day.
C9_Witness ==
    /\ result = "Ok"
    /\ pulled = <<OkBatch(BatchDates)>>
    /\ UnrepresentableDate(1, 0, 0)
    /\ UnrepresentableDate(1, 0, 1)
    /\ ~Populated(1, 0) /\ ~Populated(1, 1) /\ Populated(1, 2)
    /\ cells[<<2, 0>>] = DateTimeCell(1970, 1, 1, 0)

-----------------------------------------------------------------------------
(* C10: scenario A.                                                        *)

ScenarioA == result = "Ok" /\ pulled = <<OkBatch(BatchIdName)>>

\* C10 as stated: [id: Int32, name: Utf8] with rows (1, "Alice"), (2, null)
\* gives row0 = ["id", "name"], row1 = [1.0, "Alice"], row2 = [1.0, blank].
C10_ScenarioA_AsStated ==
    ScenarioA =>
       cells = (<<0, 0>> :> StringCell("id") @@ <<0, 1>> :> StringCell("name")
                @@ <<1, 0>> :> NumberCell(1, 1, 0) @@ <<1, 1>> :> StringCell("Alice")
                @@ <<2, 0>> :> NumberCell(1, 1, 0))

\* C10 amended: the same run gives row0 = ["id", "name"],
\* row1 = [1.0, "Alice"], row2 = [2.0, blank].
C10_ScenarioA ==
    ScenarioA =>
       cells = (<<0, 0>> :> StringCell("id") @@ <<0, 1>> :> StringCell("name")
                @@ <<1, 0>> :> NumberCell(1, 1, 0) @@ <<1, 1>> :> StringCell("Alice")
                @@ <<2, 0>> :> NumberCell(2, 1, 0))

C10_Witness == ScenarioA /\ Populated(2, 0) /\ ~Populated(2, 1)

=============================================================================
